---- MODULE Spec2Model ----
(***************************************************************************)
(* ServiceBusAdministrationClient (azure/servicebus/management/            *)
(* _management_client.py): the create / get / update / delete operations   *)
(* on queues, topics, subscriptions and rules, the supplementary-token     *)
(* injection for forward targets, the if-present precondition of updates   *)
(* and the error-translating guard around the remote calls.                *)
(*                                                                         *)
(* One behaviour is one client working on one entity of one kind against   *)
(* a broker that other clients change at the same time.  A call is one     *)
(* step; the remote invocations it makes (token acquisitions, transport    *)
(* requests) are recorded in order in last.trace.                          *)
(*                                                                         *)
(* The list operations return sequences (ItemPaged): pagers holds the two  *)
(* sequences a behaviour obtains, feed the entries of the namespace they   *)
(* list.  A sequence's consumer asks for an item; the sequence fetches a   *)
(* page when it has no entry in hand, then decodes and yields one entry.   *)
(***************************************************************************)
EXTENDS Integers, Sequences, FiniteSets, TLC

VARIABLES cred, focus, broker, objs, last, feed, pagers, lease, threads

vars == <<cred, focus, broker, objs, last, feed, pagers, lease, threads>>

\* ------------------------------------------------------------------ bounds
MaxVersion == 2
MaxVal == 2
MaxEntities == 3
MaxPageSize == 2

Vals == 1..MaxVal
NoArg == 0
TrueRuleFilter == 1
DefaultFilter == [filter |-> TrueRuleFilter, used |-> FALSE, shared |-> FALSE]

\* ------------------------------------------- concurrent calls: vocabulary
\* two calls of update_queue in flight on one client, and the mappings
\* (dict objects) their headers= keyword arguments refer to
CallIds == 1..2
NoUpdate ==
    [pc |-> "none", passed |-> "", headers |-> "", given |-> <<>>, to_update |-> <<>>,
     acquired |-> <<>>, request |-> <<>>, exc |-> ""]
NoThreads == [heap |-> <<>>, call |-> [c \in CallIds |-> NoUpdate]]

\* ----------------------------------------------- lease client: vocabulary
\* Python's None is the empty sequence, a value v is <<v>>.
None == <<>>
NoAttributes == [id |-> None, etag |-> None, last_modified |-> None]
NoLeaseClient ==
    [built |-> FALSE, id |-> None, etag |-> None, last_modified |-> None,
     _blob_lease_client |-> NoAttributes, service |-> [held |-> None, version |-> 0],
     uuids |-> 0, given |-> FALSE, acquired |-> FALSE, modified |-> FALSE, op |-> "", raised |-> FALSE]

\* ------------------------------------------------------------- vocabulary
Kinds == {"queue", "topic", "subscription", "rule"}
CredKinds == {"sas", "sharedkey", "token"}

GoodName == "e1"
OtherName == "e2"
BadName == "e?1"
EmptyName == ""
Names == {GoodName, BadName, EmptyName}

fully_qualified_namespace == "ns"

\* an entity path: bare name (abs = FALSE) or absolute resource path
NoPath == [abs |-> FALSE, ns |-> "", name |-> ""]
BarePath == [abs |-> FALSE, ns |-> "", name |-> "target"]
AbsPath == [abs |-> TRUE, ns |-> "ns", name |-> "target"]
OtherAbsPath == [abs |-> TRUE, ns |-> "other", name |-> "target"]
BareDlqPath == [abs |-> FALSE, ns |-> "", name |-> "dlq"]
AbsDlqPath == [abs |-> TRUE, ns |-> "ns", name |-> "dlq"]

JWT_TOKEN_SCOPE == [abs |-> TRUE, ns |-> "servicebus.azure.net", name |-> ".default"]
SUPPLEMENTARY_AUTHORIZATION_HEADER == "ServiceBusSupplementaryAuthorization"
DEAD_LETTER_SUPPLEMENTARY_AUTHORIZATION_HEADER == "ServiceBusDlqSupplementaryAuthorization"

\* MatchConditions of azure.core, as the generated client receives them
NoMatch == [cond |-> "Unconditionally", etag |-> 0]
IfPresent == [cond |-> "IfPresent", etag |-> 0]
IfNotModified(tag) == [cond |-> "IfNotModified", etag |-> tag]

\* Python truthiness of an optional string
Truthy(p) == p.name # ""

\* ------------------------------------------------------------ name checks
ValidName(n) == n \in {GoodName, OtherName}

AllValid(names) == \A i \in 1..Len(names) : ValidName(names[i])

\* _utils._validate_entity_name_type and its two- and three-name variants:
\* TRUE when the call goes on, FALSE when it raises
_validate_entity_name_type(entity_name) == ValidName(entity_name)

_validate_topic_and_subscription_types(topic_name, subscription_name) ==
    ValidName(topic_name) /\ ValidName(subscription_name)

_validate_topic_subscription_and_rule_types(topic_name, subscription_name, rule_name) ==
    ValidName(topic_name) /\ ValidName(subscription_name) /\ ValidName(rule_name)

\* ------------------------------------------------------------ wire codec
_normalize_entity_path_always_prefixing(p, ns) ==
    IF ~Truthy(p) THEN p
    ELSE [abs |-> TRUE, ns |-> ns, name |-> IF p.abs THEN p.ns \o "/" \o p.name ELSE p.name]

_normalize_entity_path_to_full_path_if_needed(p, ns) ==
    IF ~Truthy(p) THEN p
    ELSE IF p.abs THEN p
    ELSE [abs |-> TRUE, ns |-> ns, name |-> p.name]

Pick(kwval, own) == IF kwval = NoArg THEN own ELSE kwval
PickPath(kw, field, own) == IF field \in DOMAIN kw THEN kw[field] ELSE own

\* the wire description built from an entity's fields and the overriding
\* keyword arguments (forward targets normalised for queues/subscriptions)
InternalOf(e, ns, kw) ==
    [val |-> Pick(kw.val, e.val),
     fwd |-> _normalize_entity_path_to_full_path_if_needed(PickPath(kw, "fwd", e.fwd), ns),
     dlq |-> _normalize_entity_path_to_full_path_if_needed(PickPath(kw, "dlq", e.dlq), ns)]

\* XxxProperties._to_internal_entity: writes the wire description into the
\* object it is called on and returns the object
_to_internal_entity(e, ns, kw) == [e EXCEPT !.internal = <<InternalOf(e, ns, kw)>>]

\* XxxProperties._from_internal_entity(name, description)
_from_internal_entity(name, d) ==
    [name |-> name, val |-> d.val, fwd |-> d.fwd, dlq |-> d.dlq, etag |-> d.ver,
     internal |-> <<[val |-> d.val, fwd |-> d.fwd, dlq |-> d.dlq]>>]

NoKw == [val |-> NoArg]

\* QueueProperties(...) / SubscriptionProperties(...) / TopicProperties(...) /
\* RuleProperties(...): an entity built locally, no version tag, nothing cached
NewProperties(name, val, fwd, dlq) ==
    [name |-> name, val |-> val, fwd |-> fwd, dlq |-> dlq, etag |-> 0, internal |-> <<>>]

\* XxxRuntimeProperties._from_internal_entity(name, description)
_runtime_from_internal_entity(name, d) == [name |-> name, runtime |-> TRUE, etag |-> d.ver]

\* ----------------------------------------------------------------- broker
NoEntry == [content |-> <<>>]
Entry(d) == [content |-> <<d>>]

Stored(body, ver) == [val |-> body.val, fwd |-> body.fwd, dlq |-> body.dlq, ver |-> ver]

\* the broker's answer to one request: status, decoded entry, store afterwards.
\* echo: a 2xx answer to PUT carries the content element
BrokerPut(b, body, match, echo) ==
    IF match.cond = "Unconditionally"
    THEN IF b = <<>>
         THEN [status |-> 201,
               entry |-> IF echo THEN Entry(Stored(body, 1)) ELSE NoEntry,
               broker |-> <<Stored(body, 1)>>]
         ELSE [status |-> 409, entry |-> NoEntry, broker |-> b]
    ELSE IF b = <<>>
    THEN [status |-> 404, entry |-> NoEntry, broker |-> b]
    ELSE IF match.cond = "IfNotModified" /\ match.etag # b[1].ver
    THEN [status |-> 412, entry |-> NoEntry, broker |-> b]
    ELSE [status |-> 200,
          entry |-> IF echo THEN Entry(Stored(body, b[1].ver + 1)) ELSE NoEntry,
          broker |-> <<Stored(body, b[1].ver + 1)>>]

\* fault: the broker answers 500 whatever the request
BrokerGet(b, fault) ==
    IF fault THEN [status |-> 500, entry |-> NoEntry, broker |-> b]
    ELSE IF b = <<>> THEN [status |-> 200, entry |-> NoEntry, broker |-> b]
    ELSE [status |-> 200, entry |-> Entry(b[1]), broker |-> b]

BrokerDelete(b, fault) ==
    IF fault THEN [status |-> 500, entry |-> NoEntry, broker |-> b]
    ELSE IF b = <<>> THEN [status |-> 404, entry |-> NoEntry, broker |-> b]
    ELSE [status |-> 200, entry |-> NoEntry, broker |-> <<>>]

\* ------------------------------------------------ generated client (_impl)
HttpExc(status) ==
    IF status < 300 THEN ""
    ELSE IF status = 404 THEN "Http404"
    ELSE IF status = 409 THEN "Http409"
    ELSE IF status = 412 THEN "Http412"
    ELSE "Http500"

\* a transport request as the broker receives it, with the answer it got
Request(verb, names, match, headers, body) ==
    [type |-> "request", verb |-> verb, names |-> names, match |-> match,
     headers |-> headers, body |-> body, guarded |-> FALSE,
     status |-> 0, content |-> FALSE]

\* a call of the generated client: the names are checked while the URL is
\* built; a bad name raises before anything is sent
ImplCall(names, req, resp) ==
    IF ~AllValid(names)
    THEN [trace |-> <<>>, exc |-> "Validation", entry |-> NoEntry, broker |-> broker]
    ELSE [trace |-> <<[req EXCEPT !.status = resp.status,
                                  !.content = resp.entry.content # <<>>]>>,
          exc |-> HttpExc(resp.status), entry |-> resp.entry, broker |-> resp.broker]

NoBody == [val |-> NoArg, fwd |-> NoPath, dlq |-> NoPath]

ImplPut(names, body, match, headers, echo) ==
    ImplCall(names, Request("PUT", names, match, headers, body),
             BrokerPut(broker, body, match, echo))

ImplGet(names, fault) ==
    ImplCall(names, Request("GET", names, NoMatch, <<>>, NoBody), BrokerGet(broker, fault))

ImplDelete(names, fault) ==
    ImplCall(names, Request("DELETE", names, NoMatch, <<>>, NoBody), BrokerDelete(broker, fault))

\* --------------------------------------------------------- error translator
TypedErrors == {"NotFound", "Conflict", "Validation", "AuthorizationFailure", "TransportFailure"}

Translate(exc) ==
    IF exc = "Http404" THEN "NotFound"
    ELSE IF exc = "Http412" THEN "Conflict"
    ELSE IF exc \in {"Http409", "Http500"} THEN "TransportFailure"
    ELSE exc

\* with _handle_response_error(): <call>
_handle_response_error(r) ==
    [r EXCEPT !.exc = Translate(@),
              !.trace = [i \in DOMAIN @ |-> [@[i] EXCEPT !.guarded = TRUE]]]

\* ------------------------------------------- cross-entity token injection
IsKeyCredential == cred \in {"sas", "sharedkey"}

TokenCall(scope, ok) == [type |-> "token", scope |-> scope, ok |-> ok]

\* self._credential.get_token(uri).token, a string that depends on the scope
TokenString(scope) == [bearer |-> FALSE, scope |-> scope]
Bearer(token) == [token EXCEPT !.bearer = TRUE]

_populate_header_swallowing(uri, header, headers, fails) ==
    LET scope == IF ~IsKeyCredential THEN JWT_TOKEN_SCOPE ELSE uri
        token == IF ~IsKeyCredential THEN Bearer(TokenString(scope)) ELSE TokenString(scope)
    IN  IF fails
        THEN [trace |-> <<TokenCall(scope, FALSE)>>, headers |-> headers, exc |-> ""]
        ELSE [trace |-> <<TokenCall(scope, TRUE)>>, headers |-> (header :> token) @@ headers,
              exc |-> ""]

_populate_header_scope_by_target(uri, header, headers, fails) ==
    LET scope == uri
        token == IF ~IsKeyCredential THEN Bearer(TokenString(scope)) ELSE TokenString(scope)
    IN  IF fails
        THEN [trace |-> <<TokenCall(scope, FALSE)>>, headers |-> headers,
              exc |-> "AuthorizationFailure"]
        ELSE [trace |-> <<TokenCall(scope, TRUE)>>, headers |-> (header :> token) @@ headers,
              exc |-> ""]

_populate_header_without_prefix(uri, header, headers, fails) ==
    LET scope == IF ~IsKeyCredential THEN JWT_TOKEN_SCOPE ELSE uri
        token == TokenString(scope)
    IN  IF fails
        THEN [trace |-> <<TokenCall(scope, FALSE)>>, headers |-> headers,
              exc |-> "AuthorizationFailure"]
        ELSE [trace |-> <<TokenCall(scope, TRUE)>>, headers |-> (header :> token) @@ headers,
              exc |-> ""]

\* the inner function of _create_forward_to_header_tokens; fails: get_token raises
_populate_header_within_kwargs(uri, header, headers, fails) ==
    LET scope == IF ~IsKeyCredential THEN JWT_TOKEN_SCOPE ELSE uri
        token == IF ~IsKeyCredential THEN Bearer(TokenString(scope)) ELSE TokenString(scope)
    IN  IF fails
        THEN [trace |-> <<TokenCall(scope, FALSE)>>, headers |-> headers,
              exc |-> "AuthorizationFailure"]
        ELSE [trace |-> <<TokenCall(scope, TRUE)>>, headers |-> (header :> token) @@ headers,
              exc |-> ""]

_create_forward_to_header_tokens_fresh_headers(entity, headers, tokFail) ==
    LET s0 == [trace |-> <<>>, headers |-> <<>>, exc |-> ""]
        s1 == IF Truthy(entity.fwd)
              THEN _populate_header_within_kwargs(entity.fwd,
                       SUPPLEMENTARY_AUTHORIZATION_HEADER, s0.headers, tokFail = 1)
              ELSE s0
        n1 == Len(s1.trace)
        p2 == _populate_header_within_kwargs(entity.dlq,
                  DEAD_LETTER_SUPPLEMENTARY_AUTHORIZATION_HEADER, s1.headers,
                  tokFail = n1 + 1)
    IN  IF s1.exc # "" THEN s1
        ELSE IF Truthy(entity.dlq)
        THEN [trace |-> s1.trace \o p2.trace, headers |-> p2.headers, exc |-> p2.exc]
        ELSE s1

\* tokFail: 0 when every get_token succeeds, k when the k-th one raises
_create_forward_to_header_tokens(entity, headers, tokFail) ==
    LET s0 == [trace |-> <<>>, headers |-> headers, exc |-> ""]
        s1 == IF Truthy(entity.fwd)
              THEN _populate_header_within_kwargs(entity.fwd,
                       SUPPLEMENTARY_AUTHORIZATION_HEADER, s0.headers, tokFail = 1)
              ELSE s0
        n1 == Len(s1.trace)
        p2 == _populate_header_within_kwargs(entity.dlq,
                  DEAD_LETTER_SUPPLEMENTARY_AUTHORIZATION_HEADER, s1.headers,
                  tokFail = n1 + 1)
    IN  IF s1.exc # "" THEN s1
        ELSE IF Truthy(entity.dlq)
        THEN [trace |-> s1.trace \o p2.trace, headers |-> p2.headers, exc |-> p2.exc]
        ELSE s1

\* ------------------------------------------------------------ call records
Value(v) == [tag |-> "value", err |-> "", val |-> <<v>>]
Nothing == [tag |-> "none", err |-> "", val |-> <<>>]
Error(e) == [tag |-> "error", err |-> e, val |-> <<>>]

\* no call in progress or just finished
NoCall == [op |-> "", names |-> <<>>, trace |-> <<>>, out |-> Nothing, pre |-> <<>>, arg |-> <<>>,
           kw |-> <<>>, msg |-> <<>>]

\* a call returns or raises: its record (with the broker's entity, the
\* caller's object and the caller's headers= keyword argument as they were
\* when it started), the broker and the objects afterwards
FinishCall(headers, op, names, tr, out, b2, o2) ==
    /\ last' = [op |-> op, names |-> names, trace |-> tr, out |-> out,
                pre |-> broker, arg |-> objs.caller, kw |-> headers, msg |-> <<>>]
    /\ broker' = b2
    /\ objs' = o2
    /\ UNCHANGED <<cred, focus, feed, pagers, lease, threads>>

\* template.format(*args): the i-th argument fills the i-th placeholder; the
\* text is kept as the label in front of each placeholder and what filled it
format(labels, args) == [i \in 1..Len(labels) |-> [label |-> labels[i], value |-> args[i]]]

SubscriptionDoesNotExist == <<"Topic:", "Subscription:">>
RuleDoesNotExist == <<"Topic:", "Subscription:", "Rule">>

\* raise ResourceNotFoundError(message) of a get whose entry has no content
RaiseNotFound(op, names, tr, msg, b2) ==
    /\ last' = [op |-> op, names |-> names, trace |-> tr, out |-> Error("NotFound"),
                pre |-> broker, arg |-> objs.caller, kw |-> <<>>, msg |-> msg]
    /\ broker' = b2
    /\ UNCHANGED <<cred, focus, objs, feed, pagers, lease, threads>>

\* the same for a call made without a headers= keyword argument
Finish(op, names, tr, out, b2, o2) == FinishCall(<<>>, op, names, tr, out, b2, o2)

deepcopy_alias(ref) == ref

\* copy.deepcopy(x): the object the rest of an update works on
deepcopy(ref) == "copy"

VersionRoom == IF broker = <<>> THEN TRUE ELSE broker[1].ver < MaxVersion

\* "entry.content" of a deserialized entry is truthy
HasContent(entry) == entry.content # <<>>

\* the caller keeps the entity a get or create returned
Keep(v) == [objs EXCEPT !.caller = <<v>>]

\* the caller remembers the configuration it passed to a create that
\* returned, until the entity is updated or deleted
Created(o, config) == [o EXCEPT !.made = <<config>>]
Changed(o) == [o EXCEPT !.made = <<>>]

\* ------------------------------------------------------------------ queues
_get_entity_element(entity_name, fault) ==
    IF ~_validate_entity_name_type(entity_name)
    THEN [trace |-> <<>>, exc |-> "Validation", entry |-> NoEntry, broker |-> broker]
    ELSE _handle_response_error(ImplGet(<<entity_name>>, fault))

get_queue_unchecked(queue_name, fault) ==
    LET r == _get_entity_element(queue_name, fault)
        nm == <<queue_name>>
    IN  IF r.exc # "" THEN Finish("get_queue", nm, r.trace, Error(r.exc), r.broker, objs)
        ELSE IF ~HasContent(r.entry)
        THEN Finish("get_queue", nm, r.trace, Value(NewProperties(queue_name, NoArg, NoPath, NoPath)),
                    r.broker, objs)
        ELSE LET v == _from_internal_entity(queue_name, r.entry.content[1])
             IN  Finish("get_queue", nm, r.trace, Value(v), r.broker, Keep(v))

get_queue(queue_name, fault) ==
    LET r == _get_entity_element(queue_name, fault)
           nm == <<queue_name>>
       IN  IF r.exc # "" THEN Finish("get_queue", nm, r.trace, Error(r.exc), r.broker, objs)
           ELSE IF ~HasContent(r.entry)
           THEN Finish("get_queue", nm, r.trace, Error("NotFound"), r.broker, objs)
           ELSE LET v == _from_internal_entity(queue_name, r.entry.content[1])
                IN  Finish("get_queue", nm, r.trace, Value(v), r.broker, Keep(v))

get_queue_runtime_properties(queue_name, fault) ==
    LET r == _get_entity_element(queue_name, fault)
           nm == <<queue_name>>
           op == "get_queue_runtime_properties"
       IN  IF r.exc # "" THEN Finish(op, nm, r.trace, Error(r.exc), r.broker, objs)
           ELSE IF ~HasContent(r.entry)
           THEN Finish(op, nm, r.trace, Error("NotFound"), r.broker, objs)
           ELSE Finish(op, nm, r.trace,
                       Value(_runtime_from_internal_entity(queue_name, r.entry.content[1])),
                       r.broker, objs)

create_queue_match_condition_copied == IfPresent

create_queue_match_condition == NoMatch

\* the tail of a create: deserialize, cast, entry.content.<description>,
\* _from_internal_entity; reading an attribute of a None content raises
CreateResult(headers, op, nm, config, tr, r) ==
    IF r.exc # "" THEN FinishCall(headers, op, nm, tr, Error(r.exc), r.broker, objs)
    ELSE IF ~HasContent(r.entry)
    THEN FinishCall(headers, op, nm, tr, Error("AttributeError"), r.broker, Changed(objs))
    ELSE LET v == _from_internal_entity(config.name, r.entry.content[1])
         IN  FinishCall(headers, op, nm, tr, Value(v), r.broker, Created(Keep(v), config))

create_queue_without_dead_letter_target(queue_name, val, forward_to, forward_dead_lettered_messages_to, tokFail, echo, headers) ==
    /\ LET fwd == _normalize_entity_path_to_full_path_if_needed(forward_to, fully_qualified_namespace)
           dlq == NoPath
           queue == NewProperties(queue_name, val, fwd, dlq)
           to_create == _to_internal_entity(queue, fully_qualified_namespace, NoKw).internal[1]
           tok == _create_forward_to_header_tokens(to_create, headers, tokFail)
           nm == <<queue_name>>
       IN  IF tok.exc # ""
           THEN FinishCall(headers, "create_queue", nm, tok.trace, Error(tok.exc), broker, objs)
           ELSE LET r == _handle_response_error(
                             ImplPut(nm, to_create, create_queue_match_condition,
                                     tok.headers, echo))
                IN  CreateResult(headers, "create_queue", nm,
                                 NewProperties(queue_name, val, forward_to,
                                               forward_dead_lettered_messages_to),
                                 tok.trace \o r.trace, r)

create_queue(queue_name, val, forward_to, forward_dead_lettered_messages_to, tokFail, echo, headers) ==
    /\ LET fwd == _normalize_entity_path_to_full_path_if_needed(forward_to, fully_qualified_namespace)
           dlq == _normalize_entity_path_to_full_path_if_needed(
                      forward_dead_lettered_messages_to, fully_qualified_namespace)
           queue == NewProperties(queue_name, val, fwd, dlq)
           to_create == _to_internal_entity(queue, fully_qualified_namespace, NoKw).internal[1]
           tok == _create_forward_to_header_tokens(to_create, headers, tokFail)
           nm == <<queue_name>>
       IN  IF tok.exc # ""
           THEN FinishCall(headers, "create_queue", nm, tok.trace, Error(tok.exc), broker, objs)
           ELSE LET r == _handle_response_error(
                             ImplPut(nm, to_create, create_queue_match_condition,
                                     tok.headers, echo))
                IN  CreateResult(headers, "create_queue", nm,
                                 NewProperties(queue_name, val, forward_to,
                                               forward_dead_lettered_messages_to),
                                 tok.trace \o r.trace, r)

update_queue_match_condition_by_tag(queue) ==
    IF queue.etag = 0 THEN NoMatch ELSE IfNotModified(queue.etag)

update_queue_match_condition_none(queue) == NoMatch

update_queue_match_condition(queue) == IfPresent

\* the tail of an update: the PUT result is not read, the call returns None
UpdateResult(headers, op, nm, tr, r, o2) ==
    IF r.exc # "" THEN FinishCall(headers, op, nm, tr, Error(r.exc), r.broker, o2)
    ELSE FinishCall(headers, op, nm, tr, Nothing, r.broker, Changed(o2))

update_queue(kw, tokFail, headers) ==
    /\ objs.caller # <<>>
    /\ VersionRoom
    /\ LET target == deepcopy("caller")
           queue == _to_internal_entity(objs.caller[1], fully_qualified_namespace, kw)
           o2 == [objs EXCEPT ![target] = <<queue>>]
           to_update == queue.internal[1]
           tok == _create_forward_to_header_tokens(to_update, headers, tokFail)
           nm == <<queue.name>>
       IN  IF tok.exc # ""
           THEN FinishCall(headers, "update_queue", nm, tok.trace, Error(tok.exc), broker, o2)
           ELSE LET r == _handle_response_error(
                             ImplPut(nm, to_update, update_queue_match_condition(queue),
                                     tok.headers, TRUE))
                IN  UpdateResult(headers, "update_queue", nm, tok.trace \o r.trace, r, o2)

delete_queue_unguarded(queue_name, fault) ==
    LET nm == <<queue_name>>
        r == ImplDelete(nm, fault)
    IN  IF ~_validate_entity_name_type(queue_name)
        THEN Finish("delete_queue", nm, <<>>, Error("Validation"), broker, objs)
        ELSE IF r.exc # ""
        THEN Finish("delete_queue", nm, r.trace, Error(r.exc), r.broker, objs)
        ELSE Finish("delete_queue", nm, r.trace, Nothing, r.broker, Changed(objs))

delete_queue(queue_name, fault) ==
    LET nm == <<queue_name>>
       IN  IF ~_validate_entity_name_type(queue_name)
           THEN Finish("delete_queue", nm, <<>>, Error("Validation"), broker, objs)
           ELSE IF queue_name = EmptyName
           THEN Finish("delete_queue", nm, <<>>, Error("ValueError"), broker, objs)
           ELSE LET r == _handle_response_error(ImplDelete(nm, fault))
                IN  IF r.exc # ""
                    THEN Finish("delete_queue", nm, r.trace, Error(r.exc), r.broker, objs)
                    ELSE Finish("delete_queue", nm, r.trace, Nothing, r.broker, Changed(objs))

\* ------------------------------------------------------------------ topics
get_topic(topic_name, fault) ==
    LET r == _get_entity_element(topic_name, fault)
        nm == <<topic_name>>
    IN  IF r.exc # "" THEN Finish("get_topic", nm, r.trace, Error(r.exc), r.broker, objs)
        ELSE IF ~HasContent(r.entry)
        THEN Finish("get_topic", nm, r.trace, Error("NotFound"), r.broker, objs)
        ELSE LET v == _from_internal_entity(topic_name, r.entry.content[1])
             IN  Finish("get_topic", nm, r.trace, Value(v), r.broker, Keep(v))

get_topic_runtime_properties(topic_name, fault) ==
    LET r == _get_entity_element(topic_name, fault)
        nm == <<topic_name>>
        op == "get_topic_runtime_properties"
    IN  IF r.exc # "" THEN Finish(op, nm, r.trace, Error(r.exc), r.broker, objs)
        ELSE IF ~HasContent(r.entry)
        THEN Finish(op, nm, r.trace, Error("NotFound"), r.broker, objs)
        ELSE Finish(op, nm, r.trace,
                    Value(_runtime_from_internal_entity(topic_name, r.entry.content[1])),
                    r.broker, objs)

create_topic_match_condition == NoMatch

\* TopicProperties(topic_name, ..., size_in_bytes=size_in_bytes, ...): the entity
\* create_topic builds from its keyword arguments
TopicProperties(topic_name, val, size_in_bytes) ==
    [name |-> topic_name, val |-> val, fwd |-> NoPath, dlq |-> NoPath, etag |-> 0,
     internal |-> <<>>, size_in_bytes |-> size_in_bytes]

create_topic(topic_name, val, size_in_bytes, echo) ==
    LET topic == TopicProperties(topic_name, val, size_in_bytes)
        to_create == _to_internal_entity(topic, fully_qualified_namespace, NoKw).internal[1]
        nm == <<topic_name>>
        r == _handle_response_error(
                 ImplPut(nm, to_create, create_topic_match_condition, <<>>, echo))
    IN  CreateResult(<<>>, "create_topic", nm, topic, r.trace, r)

update_topic_match_condition(topic) == IfPresent

update_topic(kw) ==
    /\ objs.caller # <<>>
    /\ VersionRoom
    /\ LET target == deepcopy("caller")
           topic == _to_internal_entity(objs.caller[1], fully_qualified_namespace, kw)
           o2 == [objs EXCEPT ![target] = <<topic>>]
           to_update == topic.internal[1]
           nm == <<topic.name>>
           r == _handle_response_error(
                    ImplPut(nm, to_update, update_topic_match_condition(topic), <<>>, TRUE))
       IN  UpdateResult(<<>>, "update_topic", nm, r.trace, r, o2)

\* the tail of a delete: nothing is read from the answer
DeleteResult(op, nm, r) ==
    IF r.exc # "" THEN Finish(op, nm, r.trace, Error(r.exc), r.broker, objs)
    ELSE Finish(op, nm, r.trace, Nothing, r.broker, Changed(objs))

delete_topic(topic_name, fault) ==
    LET nm == <<topic_name>>
    IN  IF ~_validate_entity_name_type(topic_name)
        THEN Finish("delete_topic", nm, <<>>, Error("Validation"), broker, objs)
        ELSE DeleteResult("delete_topic", nm, ImplDelete(nm, fault))

\* ----------------------------------------------------------- subscriptions
_get_subscription_element(topic_name, subscription_name, fault) ==
    IF ~_validate_topic_and_subscription_types(topic_name, subscription_name)
    THEN [trace |-> <<>>, exc |-> "Validation", entry |-> NoEntry, broker |-> broker]
    ELSE _handle_response_error(ImplGet(<<topic_name, subscription_name>>, fault))

get_subscription(topic_name, subscription_name, fault) ==
    LET r == _get_subscription_element(topic_name, subscription_name, fault)
        nm == <<topic_name, subscription_name>>
        op == "get_subscription"
    IN  IF r.exc # "" THEN Finish(op, nm, r.trace, Error(r.exc), r.broker, objs)
        ELSE IF ~HasContent(r.entry)
        THEN RaiseNotFound(op, nm, r.trace,
                           format(SubscriptionDoesNotExist, <<subscription_name, topic_name>>),
                           r.broker)
        ELSE LET v == _from_internal_entity(subscription_name, r.entry.content[1])
             IN  Finish(op, nm, r.trace, Value(v), r.broker, Keep(v))

get_subscription_runtime_properties(topic_name, subscription_name, fault) ==
    LET r == _get_subscription_element(topic_name, subscription_name, fault)
        nm == <<topic_name, subscription_name>>
        op == "get_subscription_runtime_properties"
    IN  IF r.exc # "" THEN Finish(op, nm, r.trace, Error(r.exc), r.broker, objs)
        ELSE IF ~HasContent(r.entry)
        THEN RaiseNotFound(op, nm, r.trace,
                           format(SubscriptionDoesNotExist, <<subscription_name, topic_name>>),
                           r.broker)
        ELSE Finish(op, nm, r.trace,
                    Value(_runtime_from_internal_entity(subscription_name, r.entry.content[1])),
                    r.broker, objs)

create_subscription_match_condition == NoMatch

create_subscription(topic_name, subscription_name, val, forward_to, forward_dead_lettered_messages_to, tokFail, echo, headers) ==
    LET nm == <<topic_name, subscription_name>>
        fwd == _normalize_entity_path_to_full_path_if_needed(forward_to, fully_qualified_namespace)
        dlq == _normalize_entity_path_to_full_path_if_needed(
                   forward_dead_lettered_messages_to, fully_qualified_namespace)
        subscription == NewProperties(subscription_name, val, fwd, dlq)
        to_create == _to_internal_entity(subscription, fully_qualified_namespace, NoKw).internal[1]
        tok == _create_forward_to_header_tokens(to_create, headers, tokFail)
    IN  IF ~_validate_entity_name_type(topic_name)
        THEN FinishCall(headers, "create_subscription", nm, <<>>, Error("Validation"), broker, objs)
        ELSE IF tok.exc # ""
        THEN FinishCall(headers, "create_subscription", nm, tok.trace, Error(tok.exc), broker, objs)
        ELSE LET r == _handle_response_error(
                          ImplPut(nm, to_create, create_subscription_match_condition,
                                  tok.headers, echo))
             IN  CreateResult(headers, "create_subscription", nm,
                              NewProperties(subscription_name, val, forward_to,
                                            forward_dead_lettered_messages_to),
                              tok.trace \o r.trace, r)

update_subscription_match_condition(subscription) == IfPresent

update_subscription(topic_name, kw, tokFail, headers) ==
    /\ objs.caller # <<>>
    /\ VersionRoom
    /\ LET target == deepcopy("caller")
           subscription == _to_internal_entity(objs.caller[1], fully_qualified_namespace, kw)
           o2 == [objs EXCEPT ![target] = <<subscription>>]
           to_update == subscription.internal[1]
           tok == _create_forward_to_header_tokens(to_update, headers, tokFail)
           nm == <<topic_name, subscription.name>>
       IN  IF ~_validate_entity_name_type(topic_name)
           THEN FinishCall(headers, "update_subscription", nm, <<>>, Error("Validation"), broker, objs)
           ELSE IF tok.exc # ""
           THEN FinishCall(headers, "update_subscription", nm, tok.trace, Error(tok.exc), broker, o2)
           ELSE LET r == _handle_response_error(
                             ImplPut(nm, to_update,
                                     update_subscription_match_condition(subscription),
                                     tok.headers, TRUE))
                IN  UpdateResult(headers, "update_subscription", nm, tok.trace \o r.trace, r, o2)

delete_subscription(topic_name, subscription_name, fault) ==
    LET nm == <<topic_name, subscription_name>>
    IN  IF ~_validate_topic_and_subscription_types(topic_name, subscription_name)
        THEN Finish("delete_subscription", nm, <<>>, Error("Validation"), broker, objs)
        ELSE DeleteResult("delete_subscription", nm, ImplDelete(nm, fault))

\* ------------------------------------------------------------------- rules
_get_rule_element(topic_name, subscription_name, rule_name, fault) ==
    IF ~_validate_topic_subscription_and_rule_types(topic_name, subscription_name, rule_name)
    THEN [trace |-> <<>>, exc |-> "Validation", entry |-> NoEntry, broker |-> broker]
    ELSE _handle_response_error(ImplGet(<<topic_name, subscription_name, rule_name>>, fault))

get_rule(topic_name, subscription_name, rule_name, fault) ==
    LET r == _get_rule_element(topic_name, subscription_name, rule_name, fault)
        nm == <<topic_name, subscription_name, rule_name>>
    IN  IF r.exc # "" THEN Finish("get_rule", nm, r.trace, Error(r.exc), r.broker, objs)
        ELSE IF ~HasContent(r.entry)
        THEN RaiseNotFound("get_rule", nm, r.trace,
                           format(RuleDoesNotExist,
                                  <<subscription_name, topic_name, rule_name>>),
                           r.broker)
        ELSE LET v == _from_internal_entity(rule_name, r.entry.content[1])
             IN  Finish("get_rule", nm, r.trace, Value(v), r.broker, Keep(v))

create_rule_match_condition == NoMatch

\* The filter parameter's default is one TrueRuleFilter instance, made when the
\* method is defined; a call that leaves the parameter out binds it to that
\* instance.  used/shared remember whether one call, or several, were bound to it.
BindDefault(o) == [o EXCEPT !.dflt.used = TRUE, !.dflt.shared = o.dflt.used]

create_rule_without_default(topic_name, subscription_name, rule_name, filter, echo) ==
    LET nm == <<topic_name, subscription_name, rule_name>>
        rule == NewProperties(rule_name, filter, NoPath, NoPath)
        to_create == _to_internal_entity(rule, fully_qualified_namespace, NoKw).internal[1]
    IN  IF ~_validate_topic_and_subscription_types(topic_name, subscription_name)
        THEN Finish("create_rule", nm, <<>>, Error("Validation"), broker, objs)
        ELSE LET r == _handle_response_error(
                          ImplPut(nm, to_create, create_rule_match_condition, <<>>, echo))
             IN  CreateResult(<<>>, "create_rule", nm, rule, r.trace, r)

create_rule(topic_name, subscription_name, rule_name, filter, echo) ==
    LET nm == <<topic_name, subscription_name, rule_name>>
        o1 == IF filter = NoArg THEN BindDefault(objs) ELSE objs
        bound == IF filter = NoArg THEN objs.dflt.filter ELSE filter
        rule == NewProperties(rule_name, bound, NoPath, NoPath)
        given == NewProperties(rule_name, filter, NoPath, NoPath)
        to_create == _to_internal_entity(rule, fully_qualified_namespace, NoKw).internal[1]
    IN  IF ~_validate_topic_and_subscription_types(topic_name, subscription_name)
        THEN Finish("create_rule", nm, <<>>, Error("Validation"), broker, o1)
        ELSE LET r == _handle_response_error(
                          ImplPut(nm, to_create, create_rule_match_condition, <<>>, echo))
             IN  IF r.exc # ""
                 THEN Finish("create_rule", nm, r.trace, Error(r.exc), r.broker, o1)
                 ELSE IF ~HasContent(r.entry)
                 THEN Finish("create_rule", nm, r.trace, Error("AttributeError"), r.broker,
                             Changed(o1))
                 ELSE LET v == _from_internal_entity(rule_name, r.entry.content[1])
                      IN  Finish("create_rule", nm, r.trace, Value(v), r.broker,
                                 Created([o1 EXCEPT !.caller = <<v>>], given))

update_rule_match_condition(rule) == IfPresent

update_rule(topic_name, subscription_name, kw) ==
    /\ objs.caller # <<>>
    /\ VersionRoom
    /\ LET target == deepcopy("caller")
           rule == _to_internal_entity(objs.caller[1], fully_qualified_namespace, kw)
           o2 == [objs EXCEPT ![target] = <<rule>>]
           to_update == rule.internal[1]
           nm == <<topic_name, subscription_name, rule.name>>
       IN  IF ~_validate_topic_and_subscription_types(topic_name, subscription_name)
           THEN Finish("update_rule", nm, <<>>, Error("Validation"), broker, objs)
           ELSE LET r == _handle_response_error(
                             ImplPut(nm, to_update, update_rule_match_condition(rule),
                                     <<>>, TRUE))
                IN  UpdateResult(<<>>, "update_rule", nm, r.trace, r, o2)

delete_rule(topic_name, subscription_name, rule_name, fault) ==
    LET nm == <<topic_name, subscription_name, rule_name>>
    IN  IF ~_validate_topic_subscription_and_rule_types(topic_name, subscription_name, rule_name)
        THEN Finish("delete_rule", nm, <<>>, Error("Validation"), broker, objs)
        ELSE DeleteResult("delete_rule", nm, ImplDelete(nm, fault))

\* --------------------------------------------------------------- namespace
\* the namespace always exists; echo: the answer carries the content element
BrokerGetNamespace(fault, echo) ==
    IF fault THEN [status |-> 500, entry |-> NoEntry, broker |-> broker]
    ELSE [status |-> 200,
          entry |-> IF echo THEN Entry([name |-> fully_qualified_namespace]) ELSE NoEntry,
          broker |-> broker]

ImplGetNamespace(fault, echo) ==
    ImplCall(<<>>, Request("GET", <<>>, NoMatch, <<>>, NoBody), BrokerGetNamespace(fault, echo))

get_namespace_properties(fault, echo) ==
    LET r == ImplGetNamespace(fault, echo)
        op == "get_namespace_properties"
    IN  IF r.exc # "" THEN Finish(op, <<>>, r.trace, Error(r.exc), r.broker, objs)
        ELSE IF ~HasContent(r.entry)
        THEN Finish(op, <<>>, r.trace, Error("AttributeError"), r.broker, objs)
        ELSE Finish(op, <<>>, r.trace, Value(r.entry.content[1]), r.broker, objs)

\* ----------------------------------------------------- the other clients
OtherClientPut(val) ==
    /\ last = NoCall
    /\ VersionRoom
    /\ broker' = IF broker = <<>>
                 THEN <<[val |-> val, fwd |-> NoPath, dlq |-> NoPath, ver |-> 1]>>
                 ELSE <<[broker[1] EXCEPT !.val = val, !.ver = @ + 1]>>
    /\ objs' = Changed(objs)
    /\ UNCHANGED <<cred, focus, last, feed, pagers, lease, threads>>

OtherClientDelete ==
    /\ last = NoCall
    /\ broker # <<>>
    /\ broker' = <<>>
    /\ objs' = Changed(objs)
    /\ UNCHANGED <<cred, focus, last, feed, pagers, lease, threads>>

\* the caller builds an entity locally (or passes a mapping, from which the
\* update builds one): it carries no version tag
CallerBuilds(val) ==
    /\ last = NoCall
    /\ focus # "namespace"
    /\ objs' = [objs EXCEPT !.caller = <<NewProperties(GoodName, val, NoPath, NoPath)>>]
    /\ UNCHANGED <<cred, focus, broker, last, feed, pagers, lease, threads>>

\* the caller has the result; the call's record and its working copy are gone
CallReturns ==
    /\ last # NoCall
    /\ last' = NoCall
    /\ objs' = [objs EXCEPT !.copy = <<>>]
    /\ UNCHANGED <<cred, focus, broker, feed, pagers, lease, threads>>

\* ------------------------------------------------------------- list feeds
\* one <entry> of a feed: its title and, unless the element is missing, its
\* content with the entity's description
FeedEntry(i, ok) ==
    [title |-> i,
     content |-> IF ok THEN <<[val |-> 1, fwd |-> NoPath, dlq |-> NoPath, ver |-> 1]>>
                 ELSE <<>>]

Min(a, b) == IF a < b THEN a ELSE b

\* GET /$Resources/<kind>?$skip=&$top= : the entries of one page and the
\* "next" link (the skip of the following page) when entities remain
BrokerList(f, skip, top, fault) ==
    IF fault THEN [status |-> 500, entry |-> <<>>, link |-> <<>>]
    ELSE [status |-> 200,
          entry |-> SubSeq(f, skip + 1, Min(skip + top, Len(f))),
          link |-> IF skip + top < Len(f) THEN <<skip + top>> ELSE <<>>]

ListRequest(continuation_token, skip, top, status) ==
    [type |-> "request", verb |-> "GET", token |-> continuation_token, skip |-> skip,
     top |-> top, guarded |-> FALSE, status |-> status]

\* _utils.get_next_template(list_func, continuation_token, **kwargs): one
\* request for the page the continuation token names, inside the guard
get_next_template(f, continuation_token, max_page_size, fault) ==
    LET start_index == IF continuation_token = <<>> THEN 0 ELSE continuation_token[1]
        resp == BrokerList(f, start_index, max_page_size, fault)
    IN  _handle_response_error(
            [trace |-> <<ListRequest(continuation_token, start_index, max_page_size,
                                     resp.status)>>,
             exc |-> HttpExc(resp.status), feed_element |-> resp])

\* _utils.extract_data_template(feed_class, convert, feed_element): the
\* continuation token of the next link and the page's entries, each decoded
\* when it is yielded
extract_data_template(feed_element) ==
    [token |-> feed_element.link, page |-> feed_element.entry]

\* ----------------------------------------------------- entry converters
entry_to_qd_untitled(entry) ==
    IF ~HasContent(entry) THEN Error("AttributeError")
    ELSE Value(_from_internal_entity(1, entry.content[1]))

entry_to_qd_checked(entry) ==
    IF ~HasContent(entry) THEN Value(NewProperties(entry.title, NoArg, NoPath, NoPath))
    ELSE Value(_from_internal_entity(entry.title, entry.content[1]))

\* list_queues.entry_to_qd: entry.content.queue_description of an entry
\* without content raises
entry_to_qd(entry) ==
    IF ~HasContent(entry) THEN Error("AttributeError")
    ELSE Value(_from_internal_entity(entry.title, entry.content[1]))

entry_to_qr(entry) ==
    IF ~HasContent(entry) THEN Error("AttributeError")
    ELSE Value(_runtime_from_internal_entity(entry.title, entry.content[1]))

entry_to_topic(entry) ==
    IF ~HasContent(entry) THEN Error("AttributeError")
    ELSE Value(_from_internal_entity(entry.title, entry.content[1]))

entry_to_topic_runtime(entry) ==
    IF ~HasContent(entry) THEN Error("AttributeError")
    ELSE Value(_runtime_from_internal_entity(entry.title, entry.content[1]))

entry_to_subscription(entry) ==
    IF ~HasContent(entry) THEN Error("AttributeError")
    ELSE Value(_from_internal_entity(entry.title, entry.content[1]))

entry_to_subscription_runtime(entry) ==
    IF ~HasContent(entry) THEN Error("AttributeError")
    ELSE Value(_runtime_from_internal_entity(entry.title, entry.content[1]))

entry_to_rule(entry) ==
    IF ~HasContent(entry) THEN Error("AttributeError")
    ELSE Value(_from_internal_entity(entry.title, entry.content[1]))

\* the convert function bound into a sequence's extract_data
Convert(op, entry) ==
    CASE op = "list_queues" -> entry_to_qd(entry)
      [] op = "list_queues_runtime_properties" -> entry_to_qr(entry)
      [] op = "list_topics" -> entry_to_topic(entry)
      [] op = "list_topics_runtime_properties" -> entry_to_topic_runtime(entry)
      [] op = "list_subscriptions" -> entry_to_subscription(entry)
      [] op = "list_subscriptions_runtime_properties" -> entry_to_subscription_runtime(entry)
      [] OTHER -> entry_to_rule(entry)

\* --------------------------------------------------------- list sequences
SequenceIds == 1..2

\* no sequence object
NoPager ==
    [op |-> "", top |-> 0, did_a_call |-> FALSE, token |-> <<>>, page |-> <<>>,
     base |-> 0, size |-> 0, out |-> <<>>, reqs |-> <<>>, asked |-> 0, want |-> FALSE,
     end |-> "", stale |-> FALSE]

\* ItemPaged(get_next, extract_data): op names the list function and the
\* converter bound into the two callables, top the max_page_size kept in
\* get_next's keyword arguments; nothing is fetched
ItemPaged(op, top) == [NoPager EXCEPT !.op = op, !.top = top]

continuation_token_shared(ps, s) == ps[1].token

\* the continuation token of sequence s
continuation_token(ps, s) == ps[s].token

\* the page in hand is used up
NeedsPage(p) == p.page = <<>>

Exhausted_never(p) == FALSE

\* "End of paging": a page was fetched and it carried no next link
Exhausted(p) == p.did_a_call /\ p.token = <<>>

\* PageIterator.__next__ of sequence s: get_next, then extract_data
PageIterator_next(ps, s, f, fault) ==
    LET p == ps[s]
        r == get_next_template(f, continuation_token(ps, s), p.top, fault)
        d == extract_data_template(r.feed_element)
    IN  IF r.exc # ""
        THEN [p EXCEPT !.reqs = @ \o r.trace, !.end = r.exc, !.want = FALSE]
        ELSE [p EXCEPT !.reqs = @ \o r.trace, !.did_a_call = TRUE, !.token = d.token,
                       !.page = d.page, !.base = @ + p.size, !.size = Len(d.page)]

SetPager(s, p) ==
    /\ pagers' = [pagers EXCEPT ![s] = p]
    /\ UNCHANGED <<cred, focus, broker, objs, last, feed, lease, threads>>

\* a list call that returns: the caller holds a new sequence
NewPager(s, op, top) ==
    /\ pagers[s] = NoPager
    /\ s > 1 => pagers[s - 1] # NoPager
    /\ SetPager(s, ItemPaged(op, top))

list_queues_fetching(s, top) ==
    /\ pagers[s] = NoPager
    /\ s > 1 => pagers[s - 1] # NoPager
    /\ SetPager(s, PageIterator_next([pagers EXCEPT ![s] = ItemPaged("list_queues", top)],
                                     s, feed, FALSE))

list_queues_resuming(s, top) ==
    /\ pagers[s] = NoPager
    /\ s > 1 => pagers[s - 1] # NoPager
    /\ SetPager(s, [ItemPaged("list_queues", top) EXCEPT !.token = pagers[1].token])

list_queues(s, top) == NewPager(s, "list_queues", top)

list_queues_runtime_properties(s, top) == NewPager(s, "list_queues_runtime_properties", top)

list_topics(s, top) == NewPager(s, "list_topics", top)

list_topics_runtime_properties(s, top) == NewPager(s, "list_topics_runtime_properties", top)

list_subscriptions(s, topic_name, top) ==
    IF ~_validate_entity_name_type(topic_name)
    THEN Finish("list_subscriptions", <<topic_name>>, <<>>, Error("Validation"), broker, objs)
    ELSE NewPager(s, "list_subscriptions", top)

list_subscriptions_runtime_properties(s, topic_name, top) ==
    IF ~_validate_entity_name_type(topic_name)
    THEN Finish("list_subscriptions_runtime_properties", <<topic_name>>, <<>>,
                Error("Validation"), broker, objs)
    ELSE NewPager(s, "list_subscriptions_runtime_properties", top)

list_rules(s, topic_name, subscription_name, top) ==
    IF ~_validate_topic_and_subscription_types(topic_name, subscription_name)
    THEN Finish("list_rules", <<topic_name, subscription_name>>, <<>>, Error("Validation"),
                broker, objs)
    ELSE NewPager(s, "list_rules", top)

\* the consumer asks sequence s for its next item: next(seq)
ConsumerNext(s) ==
    /\ pagers[s].op # ""
    /\ pagers[s].end = ""
    /\ ~pagers[s].want
    /\ SetPager(s, [pagers[s] EXCEPT !.want = TRUE, !.asked = @ + 1])

\* ItemPaged.__next__ with no entry in hand: the next page is fetched
PagerFetch(s, fault) ==
    /\ pagers[s].want
    /\ NeedsPage(pagers[s])
    /\ ~Exhausted(pagers[s])
    /\ SetPager(s, PageIterator_next(pagers, s, feed, fault))

\* ItemPaged.__next__ with an entry in hand: it is decoded and returned, or
\* its decoding raises
PagerYield(s) ==
    /\ pagers[s].want
    /\ pagers[s].page # <<>>
    /\ LET p == pagers[s]
           c == Convert(p.op, Head(p.page))
       IN  IF c.tag = "error"
           THEN SetPager(s, [p EXCEPT !.end = c.err, !.want = FALSE])
           ELSE SetPager(s, [p EXCEPT !.out = Append(@, c.val[1]), !.page = Tail(@),
                                      !.want = FALSE])

\* ItemPaged.__next__ after the last page: StopIteration
PagerEnd(s) ==
    /\ pagers[s].want
    /\ pagers[s].page = <<>>
    /\ Exhausted(pagers[s])
    /\ SetPager(s, [pagers[s] EXCEPT !.end = "StopIteration", !.want = FALSE])

\* another client deletes the first entity of the namespace while sequences
\* exist (once in a behaviour)
OtherClientDeletesListed ==
    /\ feed # <<>>
    /\ pagers[1] # NoPager
    /\ ~pagers[1].stale
    /\ feed' = Tail(feed)
    /\ pagers' = [s \in SequenceIds |->
                     IF pagers[s].op # "" THEN [pagers[s] EXCEPT !.stale = TRUE]
                     ELSE pagers[s]]
    /\ UNCHANGED <<cred, focus, broker, objs, last, lease, threads>>

\* ------------------------------------------------------------ specification
FwdInputs == {NoPath, BarePath, AbsPath}
DlqInputs == {NoPath, BareDlqPath, AbsDlqPath}
KwPlain == {[val |-> v] : v \in Vals \cup {NoArg}}
KwChoices == KwPlain \cup {[val |-> NoArg, fwd |-> BarePath], [val |-> NoArg, dlq |-> AbsDlqPath]}
Focuses == Kinds \cup {"namespace"}
TokFails == 0..2

\* a header value that is not a token
HeaderText(text) == [bearer |-> FALSE, scope |-> [abs |-> FALSE, ns |-> "", name |-> text]]

\* a call made without a headers= keyword argument
NoHeaders == <<>>

\* the headers= keyword argument of a call: absent, or a header of the
\* caller's own together with the caller's own value for the
\* forward-destination header
CallerHeaders ==
    {NoHeaders,
     ("x-ms-client-request-id" :> HeaderText("caller"))
         @@ (SUPPLEMENTARY_AUTHORIZATION_HEADER :> HeaderText("caller"))}

Init ==
    /\ cred \in CredKinds
    /\ focus \in Focuses
    /\ broker = <<>>
    /\ objs = [caller |-> <<>>, copy |-> <<>>, made |-> <<>>, dflt |-> DefaultFilter]
    /\ last = NoCall
    /\ feed = <<>>
    /\ pagers = [s \in SequenceIds |-> NoPager]
    /\ lease = NoLeaseClient
    /\ threads = NoThreads

Idle == last = NoCall

QueueNext ==
    /\ focus = "queue"
    /\ Idle
    /\ \/ \E n \in Names, f \in BOOLEAN : get_queue(n, f)
       \/ \E n \in Names, f \in BOOLEAN : get_queue_runtime_properties(n, f)
       \/ \E n \in Names, v \in Vals, fw \in FwdInputs, dl \in DlqInputs, tf \in TokFails,
             e \in BOOLEAN : create_queue(n, v, fw, dl, tf, e, NoHeaders)
       \/ \E kw \in KwChoices, tf \in TokFails : update_queue(kw, tf, NoHeaders)
       \/ \E n \in Names, f \in BOOLEAN : delete_queue(n, f)

TopicNext ==
    /\ focus = "topic"
    /\ Idle
    /\ \/ \E n \in Names, f \in BOOLEAN : get_topic(n, f)
       \/ \E n \in Names, f \in BOOLEAN : get_topic_runtime_properties(n, f)
       \/ \E n \in Names, v \in Vals, sz \in {NoArg} \cup Vals, e \in BOOLEAN :
             create_topic(n, v, sz, e)
       \/ \E kw \in KwPlain : update_topic(kw)
       \/ \E n \in Names, f \in BOOLEAN : delete_topic(n, f)

SubscriptionNext ==
    /\ focus = "subscription"
    /\ Idle
    /\ \/ \E t \in Names, n \in Names, f \in BOOLEAN : get_subscription(t, n, f)
       \/ \E t \in Names, n \in Names, f \in BOOLEAN :
             get_subscription_runtime_properties(t, n, f)
       \/ \E t \in Names, n \in Names, v \in Vals, fw \in FwdInputs, dl \in DlqInputs,
             tf \in TokFails, e \in BOOLEAN :
                 create_subscription(t, n, v, fw, dl, tf, e, NoHeaders)
       \/ \E t \in Names, kw \in KwChoices, tf \in TokFails :
             update_subscription(t, kw, tf, NoHeaders)
       \/ \E t \in Names, n \in Names, f \in BOOLEAN : delete_subscription(t, n, f)

RuleNext ==
    /\ focus = "rule"
    /\ Idle
    /\ \/ \E t \in Names, n \in Names, r \in Names, f \in BOOLEAN : get_rule(t, n, r, f)
       \/ \E t \in Names, n \in Names, r \in Names, v \in Vals \cup {NoArg}, e \in BOOLEAN :
             create_rule(t, n, r, v, e)
       \/ \E t \in Names, n \in Names, kw \in KwPlain : update_rule(t, n, kw)
       \/ \E t \in Names, n \in Names, r \in Names, f \in BOOLEAN : delete_rule(t, n, r, f)

NamespaceNext ==
    /\ focus = "namespace"
    /\ Idle
    /\ \E f \in BOOLEAN, e \in BOOLEAN : get_namespace_properties(f, e)

Next ==
    \/ QueueNext
    \/ TopicNext
    \/ SubscriptionNext
    \/ RuleNext
    \/ NamespaceNext
    \/ \E v \in Vals : OtherClientPut(v)
    \/ OtherClientDelete
    \/ \E v \in Vals : CallerBuilds(v)
    \/ CallReturns

Spec == Init /\ [][Next]_vars

\* ------------------------------------------- specification of the lists
PageSizes == 1..MaxPageSize

\* the namespaces listed: up to MaxEntities entities, at most one of them
\* answered without a content element
Feeds ==
    UNION {{[i \in 1..n |-> FeedEntry(i, i # bad)] : bad \in 0..n} : n \in 0..MaxEntities}

PagingInit ==
    /\ cred = "token"
    /\ focus \in Kinds
    /\ broker = <<>>
    /\ objs = [caller |-> <<>>, copy |-> <<>>, made |-> <<>>, dflt |-> DefaultFilter]
    /\ last = NoCall
    /\ feed \in Feeds
    /\ pagers = [s \in SequenceIds |-> NoPager]
    /\ lease = NoLeaseClient
    /\ threads = NoThreads

ListNext ==
    \/ /\ focus = "queue"
       /\ \E s \in SequenceIds, top \in PageSizes :
             \/ list_queues(s, top)
             \/ list_queues_runtime_properties(s, top)
    \/ /\ focus = "topic"
       /\ \E s \in SequenceIds, top \in PageSizes :
             \/ list_topics(s, top)
             \/ list_topics_runtime_properties(s, top)
    \/ /\ focus = "subscription"
       /\ \E s \in SequenceIds, t \in Names, top \in PageSizes :
             \/ list_subscriptions(s, t, top)
             \/ list_subscriptions_runtime_properties(s, t, top)
    \/ /\ focus = "rule"
       /\ \E s \in SequenceIds, t \in Names, n \in Names, top \in PageSizes :
             list_rules(s, t, n, top)

PagerStep(s) ==
    \/ ConsumerNext(s)
    \/ \E fault \in BOOLEAN : PagerFetch(s, fault)
    \/ PagerYield(s)
    \/ PagerEnd(s)

PagingNext ==
    \/ Idle /\ ListNext
    \/ Idle /\ \E s \in SequenceIds : PagerStep(s)
    \/ Idle /\ OtherClientDeletesListed
    \/ CallReturns

PagingSpec == PagingInit /\ [][PagingNext]_vars

\* the topic lists alone, with a consumer that keeps iterating every sequence
\* it holds and sequences whose started calls go on
TopicListInit ==
    /\ cred = "token"
    /\ focus = "topic"
    /\ broker = <<>>
    /\ objs = [caller |-> <<>>, copy |-> <<>>, made |-> <<>>, dflt |-> DefaultFilter]
    /\ last = NoCall
    /\ feed \in Feeds
    /\ pagers = [s \in SequenceIds |-> NoPager]
    /\ lease = NoLeaseClient
    /\ threads = NoThreads

TopicListNext ==
    \/ \E s \in SequenceIds, top \in PageSizes : list_topics(s, top)
    \/ \E s \in SequenceIds, top \in PageSizes : list_topics_runtime_properties(s, top)
    \/ \E s \in SequenceIds : PagerStep(s)
    \/ OtherClientDeletesListed

TopicListSpec ==
    /\ TopicListInit
    /\ [][TopicListNext]_vars
    /\ \A s \in SequenceIds : WF_vars(PagerStep(s))

\* -------------------------- specification of the calls made with headers
\* the create and update calls of one client on an entity nobody else
\* changes, each made with or without a headers= keyword argument
HeaderCallsInit ==
    /\ cred \in CredKinds
    /\ focus \in Kinds
    /\ broker = <<>>
    /\ objs = [caller |-> <<>>, copy |-> <<>>, made |-> <<>>, dflt |-> DefaultFilter]
    /\ last = NoCall
    /\ feed = <<>>
    /\ pagers = [s \in SequenceIds |-> NoPager]
    /\ lease = NoLeaseClient
    /\ threads = NoThreads

HeaderCallsNext ==
    \/ /\ focus = "queue"
       /\ Idle
       /\ \/ \E fw \in FwdInputs \cup {OtherAbsPath}, dl \in DlqInputs, tf \in TokFails,
                h \in CallerHeaders : create_queue(GoodName, 1, fw, dl, tf, TRUE, h)
          \/ \E kw \in KwChoices, tf \in TokFails, h \in CallerHeaders : update_queue(kw, tf, h)
    \/ /\ focus = "subscription"
       /\ Idle
       /\ \/ \E fw \in FwdInputs \cup {OtherAbsPath}, dl \in DlqInputs, tf \in TokFails,
                h \in CallerHeaders :
                    create_subscription(GoodName, GoodName, 1, fw, dl, tf, TRUE, h)
          \/ \E kw \in KwChoices, tf \in TokFails, h \in CallerHeaders :
                update_subscription(GoodName, kw, tf, h)
    \/ /\ focus = "topic"
       /\ Idle
       /\ \/ create_topic(GoodName, 1, NoArg, TRUE)
          \/ \E kw \in KwPlain : update_topic(kw)
    \/ /\ focus = "rule"
       /\ Idle
       /\ \/ create_rule(GoodName, GoodName, GoodName, 1, TRUE)
          \/ \E kw \in KwPlain : update_rule(GoodName, GoodName, kw)
    \/ CallReturns

HeaderCallsSpec == HeaderCallsInit /\ [][HeaderCallsNext]_vars

\* ------------------------------------------------------------------ claims
UpdateOps == {"update_queue", "update_topic", "update_subscription", "update_rule"}
CreateOps == {"create_queue", "create_topic", "create_subscription", "create_rule"}
GetOps == {"get_queue", "get_queue_runtime_properties", "get_topic",
           "get_topic_runtime_properties", "get_subscription",
           "get_subscription_runtime_properties", "get_rule"}

Called == last.trace
IsRequest(x) == x.type = "request"
IsPut(x) == IF x.type = "request" THEN x.verb = "PUT" ELSE FALSE
IsToken(x) == x.type = "token"
Sent == \E i \in DOMAIN Called : IsRequest(Called[i])
OkTokensBefore(i) == Cardinality({j \in 1..(i - 1) : IF IsToken(Called[j]) THEN Called[j].ok ELSE FALSE})
Targets(body) == (IF Truthy(body.fwd) THEN 1 ELSE 0) + (IF Truthy(body.dlq) THEN 1 ELSE 0)

\* C1: every request an update operation sends is a PUT carrying the
\* if-present match condition, whatever version tag (none, current or stale)
\* the caller's entity carries.
C1_UpdateSendsIfPresent ==
    last.op \in UpdateOps =>
        \A i \in DOMAIN Called :
            IsRequest(Called[i]) => IsPut(Called[i]) /\ Called[i].match = IfPresent

C1_Witness ==
    /\ last.op \in UpdateOps
    /\ Sent
    /\ last.pre # <<>>
    /\ last.arg[1].etag # last.pre[1].ver

\* C2: in the call's sequence of remote invocations a failed token
\* acquisition is the last invocation (no PUT follows it), and every PUT
\* whose body names a forward target carries that target's supplementary
\* header, with one successful token acquisition per target before it.
C2_TokensBeforePut ==
    \A i \in DOMAIN Called :
        /\ (IF IsToken(Called[i]) THEN ~Called[i].ok ELSE FALSE) => i = Len(Called)
        /\ IsPut(Called[i]) =>
              /\ Truthy(Called[i].body.fwd) =>
                     SUPPLEMENTARY_AUTHORIZATION_HEADER \in DOMAIN Called[i].headers
              /\ Truthy(Called[i].body.dlq) =>
                     DEAD_LETTER_SUPPLEMENTARY_AUTHORIZATION_HEADER \in DOMAIN Called[i].headers
              /\ OkTokensBefore(i) = Targets(Called[i].body)

C2_Witness ==
    /\ last.op \in {"create_queue", "update_queue", "create_subscription", "update_subscription"}
    /\ Len(Called) = 2
    /\ IsToken(Called[1]) /\ Called[1].ok
    /\ IsToken(Called[2]) /\ ~Called[2].ok
    /\ last.out = Error("AuthorizationFailure")
    /\ broker = last.pre

\* C3: after an update call, returned or raised, with or without overriding
\* keyword arguments, the caller's entity object equals what it was when the
\* call started.
C3_UpdateKeepsInput ==
    last.op \in UpdateOps => objs.caller = last.arg

C3_Witness ==
    /\ last.op \in UpdateOps
    /\ objs.copy # <<>>
    /\ objs.copy[1] # objs.caller[1]
    /\ objs.caller = last.arg

\* C4: a call given a name that fails validation raises Validation and makes
\* no remote invocation at all (no transport request, no token acquisition).
C4_InvalidNameNoRemoteCall ==
    (last.op # "" /\ ~AllValid(last.names)) =>
        last.out = Error("Validation") /\ Called = <<>>

\* C5: every transport request of every operation runs inside the
\* error-translating guard, and no call ends with an untranslated transport
\* error.
C5_EveryRequestGuarded ==
    /\ \A i \in DOMAIN Called : IsRequest(Called[i]) => Called[i].guarded
    /\ last.out.err \notin {"Http404", "Http409", "Http412", "Http500"}

\* C6: a get operation whose request was answered 2xx by an entry without a
\* content element raises NotFound and returns no value.
C6_NoContentIsNotFound ==
    (/\ last.op \in GetOps
     /\ \E i \in DOMAIN Called :
            IsRequest(Called[i]) /\ Called[i].status = 200 /\ ~Called[i].content)
        => last.out = Error("NotFound")

C6_Witness ==
    /\ last.op \in GetOps
    /\ Len(Called) = 1
    /\ Called[1].status = 200 /\ ~Called[1].content
    /\ last.out = Error("NotFound")

\* C7: a call returns a value, returns nothing (update, delete), or raises
\* one of the typed errors of the taxonomy.
C7_TypedOutcome ==
    last.out.tag = "error" => last.out.err \in TypedErrors

\* C8: an update of an entity that is absent from the broker when the call
\* starts never re-creates it, and raises NotFound whenever its PUT is sent.
C8_UpdateOfDeletedIsNotFound ==
    (last.op \in UpdateOps /\ last.pre = <<>>) =>
        /\ broker = <<>>
        /\ Sent => last.out = Error("NotFound")

C8_Witness ==
    /\ last.op \in UpdateOps
    /\ last.pre = <<>>
    /\ last.arg[1].etag > 0
    /\ Sent
    /\ last.out = Error("NotFound")
    /\ broker = <<>>

StaleUpdate ==
    /\ last.op \in UpdateOps
    /\ last.pre # <<>>
    /\ last.arg[1].etag > 0
    /\ last.arg[1].etag # last.pre[1].ver
    /\ Sent

\* C9 as claimed: an update sent with a value older than the broker's
\* entity raises Conflict and leaves the other client's update in place.
C9_StaleUpdateConflicts ==
    StaleUpdate => last.out = Error("Conflict") /\ broker = last.pre

\* C9 as amended: an update sent with a value older than the broker's entity
\* succeeds, and the broker then holds the body of this update under the next
\* version: the other client's update is overwritten.
C9_StaleUpdateOverwrites ==
    StaleUpdate =>
        /\ last.out = Nothing
        /\ \E i \in DOMAIN Called :
              /\ IsPut(Called[i])
              /\ broker = <<Stored(Called[i].body, last.pre[1].ver + 1)>>

C9_Witness ==
    /\ StaleUpdate
    /\ last.out = Nothing
    /\ broker[1].val # last.pre[1].val

\* C10: no request of a create operation carries a match condition.
C10_CreateHasNoPrecondition ==
    last.op \in CreateOps =>
        \A i \in DOMAIN Called : IsRequest(Called[i]) => Called[i].match = NoMatch

C10_Witness ==
    /\ last.op \in CreateOps
    /\ Sent
    /\ last.pre # <<>>

\* the forward targets of a wire description, in the order the injector
\* visits them
ForwardTargets(body) ==
    (IF Truthy(body.fwd) THEN <<body.fwd>> ELSE <<>>)
        \o (IF Truthy(body.dlq) THEN <<body.dlq>> ELSE <<>>)

ScopeFor(target) == IF IsKeyCredential THEN target ELSE JWT_TOKEN_SCOPE

\* C11: every token acquisition of a call asks for the management-audience
\* scope when the credential is not a key credential and for an absolute
\* entity URI when it is; the acquisitions before a PUT are, target by
\* target, for the normalised forward targets of the PUT's body (key
\* credential) or for the management-audience scope (any other credential).
C11_TokenScope ==
    /\ \A j \in DOMAIN Called :
           IsToken(Called[j]) =>
               IF IsKeyCredential
               THEN Called[j].scope.abs /\ Called[j].scope # JWT_TOKEN_SCOPE
               ELSE Called[j].scope = JWT_TOKEN_SCOPE
    /\ \A i \in DOMAIN Called :
           IsPut(Called[i]) =>
               LET want == ForwardTargets(Called[i].body)
               IN  /\ Len(want) = i - 1
                   /\ \A j \in 1..(i - 1) :
                          IsToken(Called[j]) /\ Called[j].scope = ScopeFor(want[j])

C11_Witness ==
    /\ cred = "sas"
    /\ last.op = "create_queue"
    /\ Len(Called) = 3
    /\ IsToken(Called[1]) /\ Called[1].scope = AbsPath
    /\ IsToken(Called[2]) /\ Called[2].scope = AbsDlqPath
    /\ IsPut(Called[3])

\* C12: on every PUT the supplementary header of a present forward target
\* holds the token acquired for that target's scope, unchanged under a key
\* credential and prefixed "Bearer " under any other credential; a header
\* value is prefixed exactly when its token was acquired for the
\* management-audience scope.
C12_TokenPrefix ==
    \A i \in DOMAIN Called :
        IsPut(Called[i]) =>
            LET h == Called[i].headers
                body == Called[i].body
                Want(target) == IF IsKeyCredential
                                THEN TokenString(target)
                                ELSE Bearer(TokenString(JWT_TOKEN_SCOPE))
                Agree(v) == v.bearer <=> (v.scope = JWT_TOKEN_SCOPE)
            IN  /\ Truthy(body.fwd) =>
                       /\ h[SUPPLEMENTARY_AUTHORIZATION_HEADER] = Want(body.fwd)
                       /\ Agree(h[SUPPLEMENTARY_AUTHORIZATION_HEADER])
                /\ Truthy(body.dlq) =>
                       /\ h[DEAD_LETTER_SUPPLEMENTARY_AUTHORIZATION_HEADER] = Want(body.dlq)
                       /\ Agree(h[DEAD_LETTER_SUPPLEMENTARY_AUTHORIZATION_HEADER])

C12_Witness ==
    /\ cred = "token"
    /\ last.op = "create_subscription"
    /\ Len(Called) = 2
    /\ IsPut(Called[2])
    /\ Truthy(Called[2].body.fwd)
    /\ Called[2].headers[SUPPLEMENTARY_AUTHORIZATION_HEADER].bearer

TokenOps == {"create_queue", "update_queue", "create_subscription", "update_subscription"}
TopicAndRuleOps ==
    {"get_topic", "get_topic_runtime_properties", "create_topic", "update_topic",
     "delete_topic", "get_rule", "create_rule", "update_rule", "delete_rule"}

\* the supplementary headers the injector has to set for a wire description
InjectedHeaders(body) ==
    (IF Truthy(body.fwd) THEN {SUPPLEMENTARY_AUTHORIZATION_HEADER} ELSE {})
        \cup (IF Truthy(body.dlq) THEN {DEAD_LETTER_SUPPLEMENTARY_AUTHORIZATION_HEADER} ELSE {})

Titles(n) == [i \in 1..n |-> feed[i].title]
YieldedNames(p) == [i \in 1..Len(p.out) |-> p.out[i].name]
Made(s) == pagers[s].op # ""

\* C14: a sequence iterated to its end over a namespace that was not
\* modified meanwhile has yielded the namespace's entities, each once, in
\* feed order, whatever the number of entities and the page size.
C14_ListYieldsAll ==
    \A s \in SequenceIds :
        (pagers[s].end = "StopIteration" /\ ~pagers[s].stale) =>
            YieldedNames(pagers[s]) = Titles(Len(feed))

C14_Witness ==
    \E s \in SequenceIds :
        /\ pagers[s].end = "StopIteration"
        /\ ~pagers[s].stale
        /\ Len(feed) = 3
        /\ pagers[s].top = 2
        /\ Len(pagers[s].out) = 3
        /\ Len(pagers[s].reqs) = 2

CeilDiv(a, b) == (a + b - 1) \div b

\* C15: a sequence has issued no request before its consumer first asks for
\* an item; a page other than the first is fetched only after the consumer
\* has asked for more items than the pages before it held; and a consumer
\* that stops after taking m items of an unmodified namespace has caused
\* ceil(m / page size) requests.
C15_NoReadAhead ==
    \A s \in SequenceIds :
        /\ pagers[s].asked = 0 => pagers[s].reqs = <<>>
        /\ pagers[s].reqs # <<>> => pagers[s].asked > pagers[s].base
        /\ (Made(s) /\ ~pagers[s].want /\ pagers[s].end = "" /\ ~pagers[s].stale) =>
               Len(pagers[s].reqs) = CeilDiv(Len(pagers[s].out), pagers[s].top)

C15_Witness ==
    \E s \in SequenceIds :
        /\ Made(s) /\ ~pagers[s].want /\ pagers[s].end = "" /\ ~pagers[s].stale
        /\ Len(feed) = 3
        /\ pagers[s].top = 2
        /\ Len(pagers[s].out) = 2
        /\ Len(pagers[s].reqs) = 1

\* C16: after a page without a next link has been fetched the sequence
\* issues no further request, a sequence that has ended has handed out every
\* entry of that page, and every sequence whose consumer keeps iterating
\* reaches its end (or the error that ends it).
C16_Terminates ==
    /\ [][\A s \in SequenceIds :
             (pagers[s].did_a_call /\ pagers[s].token = <<>>) =>
                 pagers[s].reqs' = pagers[s].reqs]_vars
    /\ [](\A s \in SequenceIds :
             pagers[s].end = "StopIteration" =>
                 pagers[s].did_a_call /\ pagers[s].token = <<>> /\ pagers[s].page = <<>>)
    /\ \A s \in SequenceIds : Made(s) ~> (pagers[s].end # "")

C16_Witness ==
    \E s \in SequenceIds :
        /\ pagers[s].op = "list_topics"
        /\ pagers[s].end = "StopIteration"
        /\ Len(pagers[s].reqs) = 2
        /\ Len(pagers[s].out) = 3

\* C17: whatever the interleaving of the steps of the two sequences, each
\* sequence over an unmodified namespace has yielded a prefix of the
\* namespace's entities in feed order and has asked for the pages one after
\* the other from the first, with the cursor of its own previous page: what
\* it does when iterated alone.
C17_SequencesIndependent ==
    \A s \in SequenceIds :
        ~pagers[s].stale =>
            /\ Len(pagers[s].out) <= Len(feed)
            /\ YieldedNames(pagers[s]) = Titles(Len(pagers[s].out))
            /\ \A k \in DOMAIN pagers[s].reqs :
                  /\ pagers[s].reqs[k].skip = (k - 1) * pagers[s].top
                  /\ pagers[s].reqs[k].token =
                         IF k = 1 THEN <<>> ELSE <<(k - 1) * pagers[s].top>>

C17_Witness ==
    /\ pagers[1].op = "list_subscriptions" /\ pagers[2].op = "list_subscriptions"
    /\ ~pagers[1].stale /\ ~pagers[2].stale
    /\ pagers[1].end = "" /\ pagers[2].end = ""
    /\ pagers[1].top = 1 /\ Len(pagers[1].out) = 2 /\ Len(pagers[1].reqs) = 2
    /\ pagers[2].top = 1 /\ Len(pagers[2].out) = 1 /\ Len(pagers[2].reqs) = 1
    /\ pagers[1].token # pagers[2].token

\* C18: the first request of every sequence carries no continuation cursor
\* and asks for the first page, and a sequence nobody has asked for an item
\* is as the list call made it, however far the other sequence has got.
C18_FreshSequence ==
    \A s \in SequenceIds :
        /\ pagers[s].reqs # <<>> =>
               pagers[s].reqs[1].token = <<>> /\ pagers[s].reqs[1].skip = 0
        /\ (Made(s) /\ pagers[s].asked = 0) =>
               [pagers[s] EXCEPT !.stale = FALSE] = ItemPaged(pagers[s].op, pagers[s].top)

C18_Witness ==
    /\ pagers[1].op = "list_queues"
    /\ pagers[1].end = "StopIteration"
    /\ Len(pagers[1].reqs) = 3
    /\ pagers[2].op = "list_queues_runtime_properties"
    /\ pagers[2].asked = 1
    /\ Len(pagers[2].reqs) = 1
    /\ pagers[2].reqs[1].token = <<>>

TransportErrors == {"TransportFailure", "NotFound", "Conflict"}

\* C19: a sequence over an unmodified namespace never yields an item at or
\* past an entry without content; when the consumer has asked for that entry
\* the call has raised; and when the decode error is raised every entry
\* before the bad one, those of its own page included, has been yielded and
\* the bad entry is the next of the page.
C19_DecodeErrorInPlace ==
    \A s \in SequenceIds :
        /\ ~pagers[s].stale =>
               /\ Len(pagers[s].out) <= Len(feed)
               /\ \A i \in 1..Len(pagers[s].out) : HasContent(feed[i])
               /\ \A b \in DOMAIN feed :
                      (~HasContent(feed[b]) /\ pagers[s].asked = b /\ ~pagers[s].want) =>
                          pagers[s].end \in {"AttributeError"} \cup TransportErrors
        /\ pagers[s].end = "AttributeError" =>
               /\ pagers[s].page # <<>>
               /\ ~HasContent(Head(pagers[s].page))
               /\ Len(pagers[s].out) = pagers[s].base + pagers[s].size - Len(pagers[s].page)

C19_Witness ==
    \E s \in SequenceIds :
        /\ pagers[s].end = "AttributeError"
        /\ ~pagers[s].stale
        /\ pagers[s].size = 2
        /\ Len(pagers[s].page) = 1
        /\ Len(pagers[s].out) = 1
        /\ Len(pagers[s].reqs) = 1

\* a get of a queue, topic or subscription has returned a value while the
\* caller's latest create of it is still the last change made to it
RoundTrip ==
    /\ last.op \in {"get_queue", "get_topic", "get_subscription"}
    /\ last.out.tag = "value"
    /\ objs.made # <<>>

Rooted(p) ==
    IF ~Truthy(p) THEN p
    ELSE IF p.abs THEN p
    ELSE [abs |-> TRUE, ns |-> fully_qualified_namespace, name |-> p.name]

KwTargets(field) == {Rooted(kw[field]) : kw \in {k \in KwChoices : field \in DOMAIN k}}

\* C21: in every PUT of create_queue, update_queue, create_subscription and
\* update_subscription a forward target of the body is absent or absolute
\* and is left as it is by one more normalisation; the body of a create that
\* returned carries the targets passed to it, a bare name expanded into the
\* client's namespace and an absolute path unchanged; the body of an update
\* carries the same of the entity's target or of the overriding keyword
\* argument.
C21_ForwardTargetsNormalized ==
    last.op \in TokenOps =>
        \A i \in DOMAIN Called :
            IsPut(Called[i]) =>
                LET body == Called[i].body
                IN  /\ Truthy(body.fwd) => body.fwd.abs
                    /\ Truthy(body.dlq) => body.dlq.abs
                    /\ Rooted(body.fwd) = body.fwd
                    /\ Rooted(body.dlq) = body.dlq
                    /\ (last.op \in CreateOps /\ last.out.tag = "value") =>
                           /\ body.fwd = Rooted(objs.made[1].fwd)
                           /\ body.dlq = Rooted(objs.made[1].dlq)
                    /\ last.op \in UpdateOps =>
                           /\ body.fwd \in {Rooted(last.arg[1].fwd)} \cup KwTargets("fwd")
                           /\ body.dlq \in {Rooted(last.arg[1].dlq)} \cup KwTargets("dlq")

C21_Witness ==
    /\ last.op = "create_queue"
    /\ last.out.tag = "value"
    /\ objs.made[1].fwd = OtherAbsPath
    /\ objs.made[1].dlq = BareDlqPath
    /\ \E i \in DOMAIN Called :
           /\ IsPut(Called[i])
           /\ Called[i].body.fwd = OtherAbsPath
           /\ Called[i].body.dlq = AbsDlqPath

\* C22: a rule created by create_rule without a filter argument is sent with
\* the match-everything filter (TrueRuleFilter), and the RuleProperties that
\* create_rule returns, and that a later get_rule of that rule returns, carry
\* the match-everything filter.
DefaultedRule == objs.made # <<>> /\ objs.made[1].val = NoArg

C22_DefaultFilterMatchesEverything ==
    /\ (last.op = "create_rule" /\ last.out.tag = "value" /\ DefaultedRule) =>
           /\ \E i \in DOMAIN Called : IsPut(Called[i])
           /\ \A i \in DOMAIN Called :
                  IsPut(Called[i]) => Called[i].body.val = TrueRuleFilter
           /\ last.out.val[1].val = TrueRuleFilter
    /\ (last.op = "get_rule" /\ last.out.tag = "value" /\ DefaultedRule
            /\ last.names[3] = objs.made[1].name) =>
           last.out.val[1].val = TrueRuleFilter

C22_Witness ==
    /\ last.op = "get_rule"
    /\ last.out.tag = "value"
    /\ DefaultedRule
    /\ last.names[3] = objs.made[1].name
    /\ last.out.val[1].val = TrueRuleFilter

\* C28: each create_rule call that omits the filter uses a filter instance
\* constructed for that call, so no default filter instance is ever bound to
\* the filter parameter of two create_rule calls.
C28_DefaultFilterNeverShared == ~objs.dflt.shared

\* C23: no create or update operation accepts a runtime-only property as
\* input: in the entity that a create or update call serializes into its
\* request body, every runtime-only property is unset.
RuntimeOnly == {"size_in_bytes"}

Unsupplied(e) == \A f \in RuntimeOnly \cap DOMAIN e : e[f] = NoArg

C23_NoRuntimeOnlyInput ==
    /\ (last.op \in CreateOps /\ objs.made # <<>>) => Unsupplied(objs.made[1])
    /\ (last.op \in UpdateOps /\ objs.copy # <<>>) => Unsupplied(objs.copy[1])

\* C24: every operation that takes an entity name rejects an empty name with
\* a locally raised error before any network call is made (no transport
\* request and no token acquisition).
HasEmptyName == \E i \in DOMAIN last.names : last.names[i] = EmptyName

C24_EmptyNameRejectedLocally ==
    (last.op # "" /\ HasEmptyName) => last.out.tag = "error" /\ Called = <<>>

\* C25: delete_queue called with a valid name while the broker holds no queue
\* of that name (and answers the request) raises NotFound, returns no success
\* value and leaves the broker's entities unchanged.
Answered == \A i \in DOMAIN Called : IsRequest(Called[i]) => Called[i].status < 500

DeletedAbsentQueue ==
    /\ last.op = "delete_queue"
    /\ AllValid(last.names)
    /\ last.pre = <<>>
    /\ Answered

C25_DeleteAbsentQueueNotFound ==
    DeletedAbsentQueue =>
        /\ last.out = Error("NotFound")
        /\ broker = last.pre

C25_Witness ==
    /\ DeletedAbsentQueue
    /\ Len(Called) = 1
    /\ Called[1].verb = "DELETE"
    /\ Called[1].status = 404
    /\ last.out.err = "NotFound"

\* ===================================================== lease client: model
\* DataLakeLeaseClient wraps a BlobLeaseClient and copies its id, etag and
\* last_modified after every operation that returns normally.
ExistingLease == "lease-a"
ProposedLease == "lease-b"
ServiceLease == "lease-s"
UuidPool == <<"uuid-1", "uuid-2">>

\* str(uuid.uuid4()): a value no earlier call has returned
uuid4(l) == UuidPool[l.uuids + 1]

\* BlobLeaseClient(_client, lease_id=lease_id); own: whether, given no
\* lease_id, the wrapped client draws an id of its own or stays without one
BlobLeaseClient(lease_id, own, l) ==
    [id |-> IF lease_id # None THEN lease_id ELSE IF own THEN <<uuid4(l)>> ELSE None,
     etag |-> None, last_modified |-> None]

\* the storage service: whose lease the resource is under, and its version
Touched(service, held) == [held |-> held, version |-> service.version + 1]

\* a lease operation of the wrapped client: it raises and keeps its
\* attributes, or takes id, etag and last_modified from the response
BlobLeaseResult(client, ok, service, id) ==
    IF ~ok THEN [raised |-> TRUE, client |-> client, service |-> service]
    ELSE [raised |-> FALSE,
          client |-> [id |-> id, etag |-> <<service.version>>,
                      last_modified |-> <<service.version>>],
          service |-> service]

BlobLeaseClient_acquire(client, service, fault) ==
    LET granted == IF client.id = None THEN <<ServiceLease>> ELSE client.id
        ok == ~fault /\ service.held \in {None, granted}
    IN  BlobLeaseResult(client, ok, IF ok THEN Touched(service, granted) ELSE service, granted)

BlobLeaseClient_renew(client, service, fault) ==
    LET ok == ~fault /\ client.id # None /\ service.held = client.id
    IN  BlobLeaseResult(client, ok, IF ok THEN Touched(service, service.held) ELSE service,
                        client.id)

BlobLeaseClient_release(client, service, fault, keeps) ==
    LET ok == ~fault /\ client.id # None /\ service.held = client.id
    IN  BlobLeaseResult(client, ok, IF ok THEN Touched(service, None) ELSE service,
                        IF keeps THEN client.id ELSE None)

BlobLeaseClient_change(client, service, proposed_lease_id, fault) ==
    LET ok == ~fault /\ client.id # None /\ service.held = client.id
    IN  BlobLeaseResult(client, ok,
                        IF ok THEN Touched(service, <<proposed_lease_id>>) ELSE service,
                        <<proposed_lease_id>>)

\* break_lease returns the remaining lease time and updates no attribute
BlobLeaseClient_break_lease(client, service, fault) ==
    LET ok == ~fault /\ service.held # None
    IN  [raised |-> ~ok, client |-> client,
         service |-> IF ok THEN Touched(service, None) ELSE service]

LeaseStep(l) ==
    /\ lease' = l
    /\ UNCHANGED <<cred, focus, broker, objs, last, feed, pagers, threads>>

_update_lease_client_attributes(l) ==
    [l EXCEPT !.id = l._blob_lease_client.id,
              !.last_modified = l._blob_lease_client.last_modified,
              !.etag = l._blob_lease_client.etag]

\* DataLakeLeaseClient.__init__(client, lease_id)
DataLakeLeaseClient(lease_id, own) ==
    /\ ~lease.built
    /\ LET l1 == [lease EXCEPT !.built = TRUE,
                               !.given = lease_id # None,
                               !.id = IF lease_id # None THEN lease_id ELSE <<uuid4(lease)>>,
                               !.uuids = IF lease_id # None THEN @ ELSE @ + 1,
                               !.last_modified = None,
                               !.etag = None,
                               !.op = "__init__"]
           l2 == [l1 EXCEPT !._blob_lease_client = BlobLeaseClient(lease_id, own, l1),
                            !.uuids = IF lease_id = None /\ own THEN @ + 1 ELSE @]
       IN  LeaseStep(l2)

\* an operation that awaits the wrapped client's call and then copies its
\* attributes; when the call raises, the copy is not reached
Delegated(op, r, acquired, modified) ==
    LET l1 == [lease EXCEPT !._blob_lease_client = r.client, !.service = r.service,
                            !.op = op, !.raised = r.raised]
    IN  IF r.raised THEN LeaseStep(l1)
        ELSE LeaseStep(_update_lease_client_attributes(
                 [l1 EXCEPT !.acquired = @ \/ acquired, !.modified = @ \/ modified]))

LeaseReady == lease.built /\ lease.service.version <= MaxVersion

acquire(fault) ==
    /\ LeaseReady
    /\ Delegated("acquire",
                 BlobLeaseClient_acquire(lease._blob_lease_client, lease.service, fault),
                 TRUE, FALSE)

renew(fault) ==
    /\ LeaseReady
    /\ Delegated("renew",
                 BlobLeaseClient_renew(lease._blob_lease_client, lease.service, fault),
                 FALSE, TRUE)

release(fault, keeps) ==
    /\ LeaseReady
    /\ Delegated("release",
                 BlobLeaseClient_release(lease._blob_lease_client, lease.service, fault, keeps),
                 FALSE, TRUE)

change(proposed_lease_id, fault) ==
    /\ LeaseReady
    /\ Delegated("change",
                 BlobLeaseClient_change(lease._blob_lease_client, lease.service,
                                        proposed_lease_id, fault),
                 FALSE, TRUE)

break_lease(fault) ==
    /\ LeaseReady
    /\ LET r == BlobLeaseClient_break_lease(lease._blob_lease_client, lease.service, fault)
       IN  LeaseStep([lease EXCEPT !.service = r.service, !.op = "break_lease",
                                   !.raised = r.raised,
                                   !.modified = @ \/ ~r.raised])

\* another holder of the resource takes or gives up a lease of its own
OtherHolder ==
    /\ LeaseReady
    /\ lease.service.held \in {None, <<ExistingLease>>}
    /\ LeaseStep([lease EXCEPT !.service =
                      Touched(@, IF @.held = None THEN <<ExistingLease>> ELSE None)])

LeaseInit ==
    /\ cred \in CredKinds
    /\ focus \in Kinds
    /\ broker = <<>>
    /\ objs = [caller |-> <<>>, copy |-> <<>>, made |-> <<>>, dflt |-> DefaultFilter]
    /\ last = NoCall
    /\ feed = <<>>
    /\ pagers = [s \in SequenceIds |-> NoPager]
    /\ \E held \in {None, <<ExistingLease>>} :
           lease = [NoLeaseClient EXCEPT !.service.held = held]
    /\ threads = NoThreads

LeaseNext ==
    \/ \E lease_id \in {None, <<ExistingLease>>}, own \in BOOLEAN :
           DataLakeLeaseClient(lease_id, own)
    \/ \E f \in BOOLEAN : acquire(f)
    \/ \E f \in BOOLEAN : renew(f)
    \/ \E f \in BOOLEAN, k \in BOOLEAN : release(f, k)
    \/ \E f \in BOOLEAN : change(ProposedLease, f)
    \/ \E f \in BOOLEAN : break_lease(f)
    \/ OtherHolder

LeaseSpec == LeaseInit /\ [][LeaseNext]_vars

\* C27: the id of a DataLakeLeaseClient is None as long as no lease has been
\* acquired (in particular right after construction without a lease_id), and
\* etag and last_modified are None as long as no lease has been acquired or
\* modified.
NoLeaseYet == lease.built /\ ~lease.given /\ ~lease.acquired

C27_NoneUntilAcquired ==
    /\ NoLeaseYet => lease.id = None
    /\ (NoLeaseYet /\ ~lease.modified) => lease.etag = None /\ lease.last_modified = None

\* C29: in every state of a constructed DataLakeLeaseClient its id, etag and
\* last_modified equal those of the BlobLeaseClient it wraps.
C29_MirrorsWrappedClient ==
    lease.built =>
        /\ lease.id = lease._blob_lease_client.id
        /\ lease.etag = lease._blob_lease_client.etag
        /\ lease.last_modified = lease._blob_lease_client.last_modified

\* ------------------------------------- gets of subscriptions and rules
\* under two different valid names, so that an argument can be told from
\* another in what the call reports
ValidNames == {GoodName, OtherName}

NotFoundInit ==
    /\ cred \in CredKinds
    /\ focus \in {"subscription", "rule"}
    /\ broker = <<>>
    /\ objs = [caller |-> <<>>, copy |-> <<>>, made |-> <<>>, dflt |-> DefaultFilter]
    /\ last = NoCall
    /\ feed = <<>>
    /\ pagers = [s \in SequenceIds |-> NoPager]
    /\ lease = NoLeaseClient
    /\ threads = NoThreads

NotFoundNext ==
    \/ /\ focus = "subscription"
       /\ Idle
       /\ \/ \E t \in ValidNames, n \in ValidNames, f \in BOOLEAN : get_subscription(t, n, f)
          \/ \E t \in ValidNames, n \in ValidNames, f \in BOOLEAN :
                get_subscription_runtime_properties(t, n, f)
          \/ \E t \in ValidNames, n \in ValidNames, v \in Vals, e \in BOOLEAN :
                create_subscription(t, n, v, NoPath, NoPath, 0, e, NoHeaders)
          \/ \E t \in ValidNames, n \in ValidNames, f \in BOOLEAN : delete_subscription(t, n, f)
    \/ /\ focus = "rule"
       /\ Idle
       /\ \/ \E t \in ValidNames, n \in ValidNames, r \in ValidNames, f \in BOOLEAN :
                get_rule(t, n, r, f)
          \/ \E t \in ValidNames, n \in ValidNames, r \in ValidNames, v \in Vals, e \in BOOLEAN :
                create_rule(t, n, r, v, e)
          \/ \E t \in ValidNames, n \in ValidNames, r \in ValidNames, f \in BOOLEAN :
                delete_rule(t, n, r, f)
    \/ CallReturns

NotFoundSpec == NotFoundInit /\ [][NotFoundNext]_vars

\* C30: when get_subscription, get_subscription_runtime_properties or
\* get_rule raises NotFound for an entry without content, the message reports
\* the topic_name argument after "Topic:", the subscription_name argument
\* after "Subscription:" and, for get_rule, the rule_name argument after "Rule".
Reported(label) == {last.msg[i].value : i \in {j \in DOMAIN last.msg : last.msg[j].label = label}}

C30_NotFoundNamesLabelled ==
    (/\ last.op \in {"get_subscription", "get_subscription_runtime_properties", "get_rule"}
     /\ last.out = Error("NotFound")
     /\ last.msg # <<>>) =>
        /\ Reported("Topic:") = {last.names[1]}
        /\ Reported("Subscription:") = {last.names[2]}
        /\ last.op = "get_rule" => Reported("Rule") = {last.names[3]}

\* =================================================== concurrent calls: model
\* update_queue, statement by statement, for two callers on one client.  A
\* call's kwargs, its copy of the queue and its request body are local to it;
\* the mapping behind kwargs["headers"] is the caller's object when the
\* caller passed one, and a new one otherwise.
CallerRequestId == "x-ms-client-request-id" :> HeaderText("caller")

Mappings == {"", "own", "shared"}

Ref(c, passed) == IF passed = "" THEN <<"new", c>> ELSE IF passed = "own" THEN <<"own", c>>
                  ELSE <<"shared", 0>>

Refs == {Ref(c, m) : c \in CallIds, m \in Mappings}

ThreadStep(t) ==
    /\ threads' = t
    /\ UNCHANGED <<cred, focus, broker, objs, last, feed, pagers, lease>>

\* lines 441-448 and 212: copy the queue, build the body, and bind
\* kwargs["headers"] to the caller's mapping, or to a new one
update_queue_begins(c, queue, passed) ==
    /\ threads.call[c].pc = "none"
    /\ LET copy == _to_internal_entity(queue, fully_qualified_namespace, NoKw)
           ref == Ref(c, passed)
       IN  ThreadStep([threads EXCEPT
               !.call[c] = [NoUpdate EXCEPT !.pc = "bound",
                                            !.passed = passed,
                                            !.headers = ref,
                                            !.given = threads.heap[ref],
                                            !.to_update = <<copy.internal[1]>>]])

\* lines 226-227: the forward target's token is written into the mapping
update_queue_forward_token(c, fails) ==
    /\ threads.call[c].pc = "bound"
    /\ LET k == threads.call[c]
           r == _populate_header_within_kwargs(k.to_update[1].fwd,
                    SUPPLEMENTARY_AUTHORIZATION_HEADER, threads.heap[k.headers], fails)
       IN  IF ~Truthy(k.to_update[1].fwd)
           THEN ThreadStep([threads EXCEPT !.call[c].pc = "forward"])
           ELSE ThreadStep([threads EXCEPT
                    !.heap[k.headers] = r.headers,
                    !.call[c].acquired = @ \o r.trace,
                    !.call[c].exc = r.exc,
                    !.call[c].pc = IF r.exc # "" THEN "raised" ELSE "forward"])

\* lines 228-232: the same for the dead-letter target
update_queue_dead_letter_token(c, fails) ==
    /\ threads.call[c].pc = "forward"
    /\ LET k == threads.call[c]
           r == _populate_header_within_kwargs(k.to_update[1].dlq,
                    DEAD_LETTER_SUPPLEMENTARY_AUTHORIZATION_HEADER, threads.heap[k.headers],
                    fails)
       IN  IF ~Truthy(k.to_update[1].dlq)
           THEN ThreadStep([threads EXCEPT !.call[c].pc = "tokens"])
           ELSE ThreadStep([threads EXCEPT
                    !.heap[k.headers] = r.headers,
                    !.call[c].acquired = @ \o r.trace,
                    !.call[c].exc = r.exc,
                    !.call[c].pc = IF r.exc # "" THEN "raised" ELSE "tokens"])

\* lines 450-453: the PUT is sent with the mapping as it is now
update_queue_puts(c) ==
    /\ threads.call[c].pc = "tokens"
    /\ LET k == threads.call[c]
       IN  ThreadStep([threads EXCEPT
               !.call[c].request =
                   <<Request("PUT", <<GoodName>>, update_queue_match_condition(k.to_update[1]),
                             threads.heap[k.headers], k.to_update[1])>>,
               !.call[c].pc = "sent"])

ThreadsInit ==
    /\ cred \in CredKinds
    /\ focus = "queue"
    /\ broker = <<>>
    /\ objs = [caller |-> <<>>, copy |-> <<>>, made |-> <<>>, dflt |-> DefaultFilter]
    /\ last = NoCall
    /\ feed = <<>>
    /\ pagers = [s \in SequenceIds |-> NoPager]
    /\ lease = NoLeaseClient
    /\ threads = [NoThreads EXCEPT
                      !.heap = [r \in Refs |-> IF r[1] = "new" THEN NoHeaders
                                               ELSE CallerRequestId]]

ThreadsNext ==
    \E c \in CallIds :
        \/ \E v \in Vals, fw \in FwdInputs, dl \in DlqInputs, m \in Mappings :
               update_queue_begins(c, NewProperties(GoodName, v, fw, dl), m)
        \/ \E f \in BOOLEAN : update_queue_forward_token(c, f)
        \/ \E f \in BOOLEAN : update_queue_dead_letter_token(c, f)
        \/ update_queue_puts(c)

ThreadsSpec == ThreadsInit /\ [][ThreadsNext]_vars

\* C26: for every interleaving of two concurrent calls on one client, the
\* request of each call carries its own body and precondition, the headers
\* the call was given, and supplementary headers only for its own forward
\* targets, each holding a token the call acquired itself.
OwnTokens(k) ==
    {TokenString(k.acquired[i].scope) : i \in DOMAIN k.acquired}
        \cup {Bearer(TokenString(k.acquired[i].scope)) : i \in DOMAIN k.acquired}

C26_CallsIndependent ==
    \A c \in CallIds :
        LET k == threads.call[c]
        IN  k.request # <<>> =>
                LET q == k.request[1]
                    set == InjectedHeaders(q.body)
                IN  /\ q.body = k.to_update[1]
                    /\ q.match = IfPresent
                    /\ DOMAIN q.headers = (DOMAIN k.given) \cup set
                    /\ \A h \in (DOMAIN k.given) \ set : q.headers[h] = k.given[h]
                    /\ \A h \in set : q.headers[h] \in OwnTokens(k)
====
